---- MODULE Spec2Model ----
(***************************************************************************)
(* Model of the conversation backend in src/server.js.                     *)
(*                                                                         *)
(* The file holds two variants of the server that share one Conversation   *)
(* collection: the first serves the buffered turn POST /chat/:id, the      *)
(* second the streaming turn POST /chat-stream/:id; both serve create,     *)
(* get and delete.  Every request handler is an async function: it runs    *)
(* atomically between two awaits, so each action below is the code between *)
(* one await and the next.  Texts are sequences of characters.             *)
(*                                                                         *)
(* A turn request in flight lives in req; when a handler completes, the    *)
(* request with its response and its history moves to res, where the       *)
(* caller picks it up (Deliver) before the next request is served.         *)
(***************************************************************************)
EXTENDS Integers, Sequences, FiniteSets, TLC

\* ---------------------------------------------------------------- bounds
MaxReq == 2        \* turn requests that pass validation in one behaviour
MaxConc == 2       \* turn requests in flight at the same time
MaxConvs == 1      \* conversation ids that can be allocated or addressed
MaxChunks == 2     \* chunks a provider stream yields at most
MaxNow == 1        \* the clock stops here
MaxContent == 42   \* characters of the longest first message that is listed

Requests == 1..MaxConc

\* ---------------------------------------------------------------- inputs
\* req.body.userId: missing/empty ("") or present
UserIds == {"", "u1"}
\* req.body.question: missing/empty (<<>>) or present
Questions == {<<>>, <<"q">>}
\* chunk.text() of the k-th chunk of the provider stream: no text, or the
\* k-th fragment of the answer
Letters == <<"a", "b", "c", "d">>
ChunkTexts(k) == {<<>>, <<Letters[k]>>}
\* result.response.text() of the buffered provider call
AnswerTexts == {<<>>, <<"a">>}

\* '(Không có phản hồi)', the answer used when the result carries no text
NoResponse == <<"(no response)">>
\* '...', appended to every preview that is cut from a text
Ellipsis == <<".", ".", ".">>
\* .slice(0, 40)
PreviewLen == 40
\* '(Cuộc trò chuyện trống)', the preview of a conversation without messages
\* in the listing of the first variant
EmptyPreview == <<"(empty conversation)">>
\* '(mới)', the text previewed for a conversation without messages in the
\* listing of the second variant
NewMarker == <<"(", "m", "o", "i", ")">>
\* '\n[STREAM_ERROR]', the abort marker written by the streaming catch block
STREAM_ERROR == <<"[STREAM_ERROR]">>

VARIABLES
    store,     \* the Conversation collection: id -> document, for the ids present
    nextId,    \* the next _id the driver allocates
    now,       \* Date.now()
    req,       \* the turn requests in flight: inputs, position and locals
    res,       \* the request that just completed, with its response
    turns,     \* history: number of turn requests that passed validation
    succeeded  \* history: <<turn, id>> of the buffered turns answered with success

vars == <<store, nextId, now, req, res, turns, succeeded>>

\* The ids a request addresses: those that can be handed out, and those that
\* were handed out.
ConvIds == (1..MaxConvs) \cup (1..(nextId - 1))

\* ------------------------------------------------------------ the schema
\* MessageSchema.  turn and op are history fields naming the request that
\* pushed the message.
Message(role, content, q) ==
    [role |-> role, content |-> content, turn |-> q.turn, op |-> q.op]

\* content: { type: String, required: true } rejects the empty string
ValidMessage(m) == m.content # <<>>

ValidateMessages(ms) == \A i \in 1..Len(ms) : ValidMessage(ms[i])

\* No request.
Idle ==
    [op |-> "none", pc |-> "idle", turn |-> 0,
     conversationId |-> 0, userId |-> "", question |-> <<>>,
     convo |-> <<>>,        \* convo.messages of the working copy
     delta |-> <<>>,        \* the pushes of the working copy not saved yet
     answer |-> <<>>,       \* answer (buffered turn)
     hasText |-> FALSE,     \* the provider result carried a text
     fullAnswer |-> <<>>,   \* fullAnswer (streaming turn)
     read |-> 0,            \* chunks read from the provider stream
     chunks |-> <<>>,       \* history: the texts of the chunks read, in order
     gone |-> FALSE,        \* the caller has disconnected
     goneAt |-> 0,          \* history: Len(chan) when the caller disconnected
     status |-> 0,          \* HTTP status of the response, 0: none yet
     chan |-> <<>>,         \* the texts written with res.write, in order
     ended |-> FALSE,       \* the response was ended (res.end / res.json)
     messages |-> <<>>,     \* the messages of the JSON response
     conversations |-> <<>>, \* the summaries of the JSON response
     found |-> FALSE,       \* history: the store held conversationId when asked
     genCalls |-> 0,        \* history: calls of the Generation Client
     committed |-> <<>>,    \* history: messages this request made durable
     failed |-> "none"]     \* history: the call that threw, if any

Init ==
    /\ store = <<>>
    /\ nextId = 1
    /\ now = 0
    /\ req = [r \in Requests |-> Idle]
    /\ res = Idle
    /\ turns = 0
    /\ succeeded = {}

\* ---------------------------------------------------------------- express
\* res.status(code).json(...): a complete response
Json(q, code) == [q EXCEPT !.status = code, !.ended = TRUE, !.pc = "done"]

\* res.write(text): a write after res.end() reaches nobody
Write(q, text) ==
    IF q.ended THEN q
    ELSE [q EXCEPT !.chan = Append(@, text),
                   !.status = IF @ = 0 THEN 200 ELSE @]

\* res.end()
End(q) == [q EXCEPT !.ended = TRUE, !.status = IF @ = 0 THEN 200 ELSE @]

\* The handler of request r returns or awaits, its state being q.
Continue(r, q) ==
    IF q.pc = "done"
    THEN /\ req' = [req EXCEPT ![r] = Idle]
         /\ res' = q
    ELSE /\ req' = [req EXCEPT ![r] = q]
         /\ res' = res

\* The caller has the response of the request that completed.
Deliver ==
    /\ res # Idle
    /\ res' = Idle
    /\ UNCHANGED <<store, nextId, now, req, turns, succeeded>>

\* ---------------------------------------------------------------- mongoose
Exists(id) == id \in DOMAIN store

\* Mutant of Push: unshift instead of push.
Push_Unshift(q, m) ==
    [q EXCEPT !.convo = <<m>> \o @, !.delta = <<m>> \o @]

\* convo.messages.push(m) on the working copy
Push(q, m) == [q EXCEPT !.convo = Append(@, m), !.delta = Append(@, m)]

\* Mutant of SaveUpdate: the whole array of the working copy is written back.
SaveUpdate_Overwrite(st, q) ==
    [st EXCEPT ![q.conversationId].messages = q.convo]

\* Mutant of SaveUpdate: the pushed messages go to the front ($position 0).
SaveUpdate_Prepend(st, q) ==
    [st EXCEPT ![q.conversationId].messages = q.delta \o @]

\* Mutant of SaveUpdate: the update is matched on the owner, not on the _id.
SaveUpdate_ByUser(st, q) ==
    [c \in DOMAIN st |->
        IF st[c].userId = st[q.conversationId].userId
        THEN [st[c] EXCEPT !.messages = @ \o q.delta]
        ELSE st[c]]

\* Mutant of SaveUpdate: only the first pushed message reaches the store.
SaveUpdate_PushFirst(st, q) ==
    [st EXCEPT ![q.conversationId].messages =
                  IF q.delta = <<>> THEN @ ELSE Append(@, Head(q.delta))]

\* The update convo.save() sends for a loaded document: the pushed messages
\* go out as one atomic $push/$each on the stored array.
SaveUpdate(st, q) ==
    [st EXCEPT ![q.conversationId].messages = @ \o q.delta]

\* convo.save() of a loaded document resolves iff the pushed messages pass
\* validation and the update matched the stored document.
SaveOk(st, q) == ValidateMessages(q.delta) /\ q.conversationId \in DOMAIN st

\* The working copy after a save that resolved.
Saved(q) == [q EXCEPT !.committed = @ \o q.delta, !.delta = <<>>]

\* Conversation.findByIdAndDelete(id): removes the document if there is one
FindByIdAndDelete(st, id) == [c \in DOMAIN st \ {id} |-> st[c]]

\* ------------------------------------------------------------------ routes
\* app.post('/conversation')
CreateConversation ==
    /\ res = Idle
    /\ \E userId \in UserIds, storageFails \in BOOLEAN, tick \in 0..1 :
        LET q == [Idle EXCEPT !.op = "create", !.userId = userId] IN
        IF userId = "" THEN
            /\ res' = Json(q, 400)
            /\ UNCHANGED <<store, nextId, now>>
        ELSE IF storageFails THEN
            /\ res' = Json([q EXCEPT !.failed = "save"], 500)
            /\ UNCHANGED <<store, nextId, now>>
        ELSE
            /\ nextId <= MaxConvs
            /\ now + tick <= MaxNow
            /\ now' = now + tick
            /\ store' = [id \in DOMAIN store \cup {nextId} |->
                           IF id = nextId
                           THEN [userId |-> userId, createdAt |-> now',
                                 messages |-> <<>>]
                           ELSE store[id]]
            /\ nextId' = nextId + 1
            /\ res' = Json([q EXCEPT !.conversationId = nextId], 200)
    /\ UNCHANGED <<req, turns, succeeded>>

\* app.get('/conversation/:id')
GetConversation ==
    /\ res = Idle
    /\ \E id \in ConvIds, storageFails \in BOOLEAN :
         LET q == [Idle EXCEPT !.op = "get", !.conversationId = id,
                               !.found = Exists(id)] IN
         res' = IF storageFails THEN Json([q EXCEPT !.failed = "find"], 500)
                ELSE IF ~Exists(id) THEN Json(q, 404)
                ELSE Json([q EXCEPT !.messages = store[id].messages], 200)
    /\ UNCHANGED <<store, nextId, now, req, turns, succeeded>>

\* app.delete('/conversation/:id')
DeleteConversation ==
    /\ res = Idle
    /\ \E id \in ConvIds, storageFails \in BOOLEAN :
         LET q == [Idle EXCEPT !.op = "delete", !.conversationId = id,
                               !.found = Exists(id)] IN
         IF storageFails THEN
             /\ res' = Json([q EXCEPT !.failed = "delete"], 500)
             /\ store' = store
         ELSE
             /\ store' = FindByIdAndDelete(store, id)
             /\ res' = Json(q, 200)
    /\ UNCHANGED <<nextId, now, req, turns, succeeded>>

\* text.slice(0, n)
Slice(text, n) == SubSeq(text, 1, IF Len(text) < n THEN Len(text) ELSE n)

\* lines 96-98: the preview of the first variant
Preview(ms) ==
    IF ms # <<>> /\ ms[1].content # <<>>
    THEN Slice(ms[1].content, PreviewLen) \o Ellipsis
    ELSE EmptyPreview

\* line 255: the preview of the second variant
PreviewNew(ms) ==
    Slice(IF ms # <<>> /\ ms[1].content # <<>> THEN ms[1].content ELSE NewMarker,
          PreviewLen) \o Ellipsis

\* Conversation.find({ userId }).sort({ createdAt: -1 }): the ids of the
\* user's conversations, newest first, equal dates in any order
Find(userId) ==
    LET ids == {id \in DOMAIN store : store[id].userId = userId}
        n == Cardinality(ids)
    IN {s \in [1..n -> ids] :
          /\ \A i, j \in 1..n : i # j => s[i] # s[j]
          /\ \A i, j \in 1..n :
                i < j => store[s[i]].createdAt >= store[s[j]].createdAt}

\* convos.map(c => ({ id, createdAt, preview }))
Previews(convos, variant) ==
    [i \in 1..Len(convos) |->
        [id |-> convos[i], createdAt |-> store[convos[i]].createdAt,
         preview |-> IF variant = "list"
                     THEN Preview(store[convos[i]].messages)
                     ELSE PreviewNew(store[convos[i]].messages)]]

\* app.get('/conversations/:userId'), first variant
ListConversations ==
    /\ res = Idle
    /\ \E userId \in UserIds \ {""}, storageFails \in BOOLEAN :
         LET q == [Idle EXCEPT !.op = "list", !.userId = userId] IN
         IF storageFails
         THEN res' = Json([q EXCEPT !.failed = "find"], 500)
         ELSE \E convos \in Find(userId) :
                res' = Json([q EXCEPT !.conversations =
                                         Previews(convos, q.op)], 200)
    /\ UNCHANGED <<store, nextId, now, req, turns, succeeded>>

\* app.get('/conversations/:userId'), second variant
ListConversationsNew ==
    /\ res = Idle
    /\ \E userId \in UserIds \ {""}, storageFails \in BOOLEAN :
         LET q == [Idle EXCEPT !.op = "listNew", !.userId = userId] IN
         IF storageFails
         THEN res' = Json([q EXCEPT !.failed = "find"], 500)
         ELSE \E convos \in Find(userId) :
                res' = Json([q EXCEPT !.conversations =
                                         Previews(convos, q.op)], 200)
    /\ UNCHANGED <<store, nextId, now, req, turns, succeeded>>

\* Mutant of Invalid: the question is not checked.
Invalid_OnlyUserId(userId, question) == userId = ""

\* if (!userId || !question)
Invalid(userId, question) == userId = "" \/ question = <<>>

\* A turn request arrives: it is served at once when it fails validation,
\* and takes a free place among the requests in flight when it passes.
Arrive(r, q, first) ==
    /\ res = Idle
    /\ req[r].pc = "idle"
    /\ \A p \in 1..(r - 1) : req[p].pc # "idle"
    /\ IF Invalid(q.userId, q.question)
       THEN /\ res' = Json(q, 400)
            /\ UNCHANGED <<req, turns>>
       ELSE /\ turns < MaxReq
            /\ turns' = turns + 1
            /\ req' = [req EXCEPT ![r] = first]
            /\ res' = res

\* ---- app.post('/chat/:conversationId'), the buffered turn ----

\* lines 59-66: validation, then the call of model.generateContent
ChatStart(r) ==
    /\ \E id \in ConvIds, userId \in UserIds, question \in Questions :
         LET q == [Idle EXCEPT !.op = "chat", !.conversationId = id,
                               !.userId = userId, !.question = question] IN
         Arrive(r, q, [q EXCEPT !.turn = turns + 1, !.genCalls = @ + 1,
                                !.pc = "generateContent"])
    /\ UNCHANGED <<store, nextId, now, succeeded>>

\* lines 66-70: the provider answers or throws; then the call of findById
ChatGenerate(r) ==
    /\ res = Idle
    /\ req[r].pc = "generateContent"
    /\ \/ Continue(r, Json([req[r] EXCEPT !.failed = "provider"], 500))
       \/ \E text \in AnswerTexts :
            Continue(r, [req[r] EXCEPT !.answer = text, !.hasText = TRUE,
                                       !.pc = "findById"])
       \/ Continue(r, [req[r] EXCEPT !.answer = NoResponse, !.pc = "findById"])
    /\ UNCHANGED <<store, nextId, now, turns, succeeded>>

\* lines 70-75: the document arrives; two pushes; the call of save
ChatFindById(r) ==
    /\ res = Idle
    /\ req[r].pc = "findById"
    /\ req[r].op = "chat"
    /\ \E storageFails \in BOOLEAN :
         LET q == [req[r] EXCEPT !.found = Exists(req[r].conversationId)] IN
         Continue(r,
             IF storageFails THEN Json([q EXCEPT !.failed = "find"], 500)
             ELSE IF ~q.found THEN Json(q, 404)
             ELSE LET c == [q EXCEPT !.convo = store[q.conversationId].messages,
                                     !.pc = "save"]
                  IN Push(Push(c, Message("user", q.question, q)),
                          Message("assistant", q.answer, q)))
    /\ UNCHANGED <<store, nextId, now, turns, succeeded>>

\* lines 75-81: save resolves or throws; the response
ChatSave(r) ==
    /\ res = Idle
    /\ req[r].pc = "save"
    /\ \E storageFails \in BOOLEAN :
         LET q == req[r] IN
         IF storageFails \/ ~SaveOk(store, q) THEN
             /\ Continue(r, Json([q EXCEPT !.failed = "save"], 500))
             /\ UNCHANGED <<store, succeeded>>
         ELSE
             /\ store' = SaveUpdate(store, q)
             /\ Continue(r, Json([Saved(q) EXCEPT !.messages = q.convo], 200))
             /\ succeeded' = succeeded \cup {<<q.turn, q.conversationId>>}
    /\ UNCHANGED <<nextId, now, turns>>

\* ---- app.post('/chat-stream/:conversationId'), the streaming turn ----

\* Mutant of Catch: the marker is written and the response is left open.
Catch_NoEnd(q, call) ==
    [Write([q EXCEPT !.failed = call], STREAM_ERROR) EXCEPT !.pc = "done"]

\* Mutant of Catch: the response is ended without the marker.
Catch_Silent(q, call) ==
    [End([q EXCEPT !.failed = call]) EXCEPT !.pc = "done"]

\* lines 233-240: the catch block
Catch(q, call) ==
    [End(Write([q EXCEPT !.failed = call], STREAM_ERROR)) EXCEPT !.pc = "done"]

\* lines 195-201: validation, then the call of findById
StreamStart(r) ==
    /\ \E id \in ConvIds, userId \in UserIds, question \in Questions :
         LET q == [Idle EXCEPT !.op = "stream", !.conversationId = id,
                               !.userId = userId, !.question = question] IN
         Arrive(r, q, [q EXCEPT !.turn = turns + 1, !.pc = "findById"])
    /\ UNCHANGED <<store, nextId, now, succeeded>>

\* lines 201-206: the document arrives; the user's message is pushed and saved
StreamFindById(r) ==
    /\ res = Idle
    /\ req[r].pc = "findById"
    /\ req[r].op = "stream"
    /\ \E storageFails \in BOOLEAN :
         LET q == [req[r] EXCEPT !.found = Exists(req[r].conversationId)] IN
         Continue(r,
             IF storageFails THEN Catch(q, "find")
             ELSE IF ~q.found THEN Json(q, 404)
             ELSE Push([q EXCEPT !.convo = store[q.conversationId].messages,
                                 !.pc = "saveUser"],
                       Message("user", q.question, q)))
    /\ UNCHANGED <<store, nextId, now, turns, succeeded>>

\* lines 206-216: save resolves or throws; headers; the call of
\* model.generateContentStream
StreamSaveUser(r) ==
    /\ res = Idle
    /\ req[r].pc = "saveUser"
    /\ \E storageFails \in BOOLEAN :
         LET q == req[r] IN
         IF storageFails \/ ~SaveOk(store, q) THEN
             /\ Continue(r, Catch(q, "save"))
             /\ store' = store
         ELSE
             /\ store' = SaveUpdate(store, q)
             /\ Continue(r, [Saved(q) EXCEPT !.status = 200,
                                             !.genCalls = @ + 1,
                                             !.pc = "generateContentStream"])
    /\ UNCHANGED <<nextId, now, turns, succeeded>>

\* line 216: the provider hands out the stream or throws
StreamGenerate(r) ==
    /\ res = Idle
    /\ req[r].pc = "generateContentStream"
    /\ \/ Continue(r, Catch(req[r], "provider"))
       \/ Continue(r, [req[r] EXCEPT !.pc = "stream"])
    /\ UNCHANGED <<store, nextId, now, turns, succeeded>>

\* Mutant of Relay: everything accumulated is written again with each chunk.
Relay_WriteAll(q, text) ==
    IF text = <<>> THEN q
    ELSE Write([q EXCEPT !.fullAnswer = @ \o text], q.fullAnswer \o text)

\* Mutant of Relay: fullAnswer = text instead of fullAnswer += text.
Relay_Overwrite(q, text) ==
    IF text = <<>> THEN q
    ELSE Write([q EXCEPT !.fullAnswer = text], text)

\* lines 220-224: the body of the loop for one chunk
Relay(q, text) ==
    IF text = <<>> THEN q
    ELSE Write([q EXCEPT !.fullAnswer = @ \o text], text)

\* lines 219-225: the stream yields one more chunk, or throws
StreamChunk(r) ==
    /\ res = Idle
    /\ req[r].pc = "stream"
    /\ \/ /\ req[r].read < MaxChunks
          /\ \E text \in ChunkTexts(req[r].read + 1) :
               Continue(r, Relay([req[r] EXCEPT !.read = @ + 1,
                                                !.chunks = Append(@, text)],
                                 text))
       \/ Continue(r, Catch(req[r], "provider"))
    /\ UNCHANGED <<store, nextId, now, turns, succeeded>>

\* Mutant of Hangup: the handler is torn down when the caller disconnects.
Hangup_Abort(q) == [End([q EXCEPT !.gone = TRUE, !.goneAt = Len(q.chan)])
                      EXCEPT !.pc = "done"]

\* lines 219-225: the loop has no listener for the caller's disconnect and
\* looks at neither req nor res before it writes: the handler goes on
Hangup(q) == [q EXCEPT !.gone = TRUE, !.goneAt = Len(q.chan)]

\* The caller disconnects in the middle of the stream.
Disconnect(r) ==
    /\ res = Idle
    /\ req[r].pc = "stream"
    /\ ~req[r].gone
    /\ Continue(r, Hangup(req[r]))
    /\ UNCHANGED <<store, nextId, now, turns, succeeded>>

\* lines 225-232: the stream is exhausted; res.end(); the assistant's
\* message is pushed and saved
StreamEnd(r) ==
    /\ res = Idle
    /\ req[r].pc = "stream"
    /\ Continue(r, Push([End(req[r]) EXCEPT !.pc = "saveAssistant"],
                        Message("assistant", req[r].fullAnswer, req[r])))
    /\ UNCHANGED <<store, nextId, now, turns, succeeded>>

\* Mutant of StreamSaveAssistant: save() inserts the working copy when the
\* stored document is gone.
StreamSaveAssistant_Upsert(r) ==
    /\ res = Idle
    /\ req[r].pc = "saveAssistant"
    /\ \E storageFails \in BOOLEAN :
         LET q == req[r] IN
         IF storageFails \/ ~ValidateMessages(q.delta) THEN
             /\ Continue(r, Catch(q, "save"))
             /\ store' = store
         ELSE
             /\ store' = [id \in DOMAIN store \cup {q.conversationId} |->
                            IF id # q.conversationId THEN store[id]
                            ELSE IF id \in DOMAIN store
                            THEN [store[id] EXCEPT !.messages = @ \o q.delta]
                            ELSE [userId |-> q.userId, createdAt |-> now,
                                  messages |-> q.convo]]
             /\ Continue(r, [Saved(q) EXCEPT !.pc = "done"])
    /\ UNCHANGED <<nextId, now, turns, succeeded>>

\* lines 232-240: save resolves or throws
StreamSaveAssistant(r) ==
    /\ res = Idle
    /\ req[r].pc = "saveAssistant"
    /\ \E storageFails \in BOOLEAN :
         LET q == req[r] IN
         IF storageFails \/ ~SaveOk(store, q) THEN
             /\ Continue(r, Catch(q, "save"))
             /\ store' = store
         ELSE
             /\ store' = SaveUpdate(store, q)
             /\ Continue(r, [Saved(q) EXCEPT !.pc = "done"])
    /\ UNCHANGED <<nextId, now, turns, succeeded>>

Next ==
    \/ CreateConversation
    \/ GetConversation
    \/ DeleteConversation
    \/ ListConversations
    \/ ListConversationsNew
    \/ Deliver
    \/ \E r \in Requests :
        \/ ChatStart(r)
        \/ ChatGenerate(r)
        \/ ChatFindById(r)
        \/ ChatSave(r)
        \/ StreamStart(r)
        \/ StreamFindById(r)
        \/ StreamSaveUser(r)
        \/ StreamGenerate(r)
        \/ StreamChunk(r)
        \/ Disconnect(r)
        \/ StreamEnd(r)
        \/ StreamSaveAssistant(r)

Spec == Init /\ [][Next]_vars

\* ---- two conversations side by side ----
\* The store after two creates of user u1.
InitTwo ==
    /\ store = [id \in {1, 2} |->
                  [userId |-> "u1", createdAt |-> 0, messages |-> <<>>]]
    /\ nextId = 3
    /\ now = 0
    /\ req = [r \in Requests |-> Idle]
    /\ res = Idle
    /\ turns = 0
    /\ succeeded = {}

SpecTwo == InitTwo /\ [][Next]_vars

\* The provider stream ends or fails and the handler is resumed: every
\* continuation of the loop that is ready is run by the event loop, and a
\* response that completed is delivered.
Fairness ==
    /\ WF_vars(Deliver)
    /\ \A r \in Requests :
          SF_vars(StreamGenerate(r) \/ StreamChunk(r) \/ StreamEnd(r))

\* The streaming turns alone, with the creations and deletions that decide
\* whether their saves succeed.
NextStreaming ==
    \/ CreateConversation
    \/ DeleteConversation
    \/ Deliver
    \/ \E r \in Requests :
        \/ StreamStart(r)
        \/ StreamFindById(r)
        \/ StreamSaveUser(r)
        \/ StreamGenerate(r)
        \/ StreamChunk(r)
        \/ Disconnect(r)
        \/ StreamEnd(r)
        \/ StreamSaveAssistant(r)

SpecStreaming == Init /\ [][NextStreaming]_vars /\ Fairness

\* ---- the listing of one conversation whose first message is long ----
RECURSIVE Run(_)
\* A text of n characters.
Run(n) == IF n = 0 THEN <<>> ELSE Append(Run(n - 1), "x")

\* The store after one create and at most one turn of user u1.
InitListing ==
    /\ \E n \in 0..MaxContent :
         store = [id \in {1} |->
                    [userId |-> "u1", createdAt |-> 0,
                     messages |-> IF n = 0 THEN <<>>
                                  ELSE <<[role |-> "user", content |-> Run(n),
                                          turn |-> 1, op |-> "chat"],
                                         [role |-> "assistant", content |-> <<"a">>,
                                          turn |-> 1, op |-> "chat"]>>]]
    /\ nextId = 2
    /\ now = 0
    /\ req = [r \in Requests |-> Idle]
    /\ res = Idle
    /\ turns = 1
    /\ succeeded = {}

NextListing == ListConversations \/ ListConversationsNew \/ Deliver

SpecListing == InitListing /\ [][NextListing]_vars

\* ------------------------------------------------------------- vocabulary
RECURSIVE Concat(_)
\* The concatenation of a sequence of texts.
Concat(texts) ==
    IF texts = <<>> THEN <<>> ELSE Head(texts) \o Concat(Tail(texts))

\* The positions of the messages of turn t in the sequence ms.
PositionsOf(ms, t) == {i \in 1..Len(ms) : ms[i].turn = t}

IsUser(m, t, content) == m.role = "user" /\ m.turn = t /\ m.content = content
IsAssistant(m, t, content) ==
    m.role = "assistant" /\ m.turn = t /\ m.content = content

\* The request that just completed is a turn of kind op.
Completed(op) == res.pc = "done" /\ res.op = op

\* ------------------------------------------------------------------ claims

\* C1: a buffered turn whose provider call and save both succeed extends the
\* stored message sequence of its conversation by exactly the pair
\* [user: question, assistant: the provider's text], and changes nothing else
\* in the store.
C1_BufferedTurnAppendsPair ==
    [][\A r \in Requests :
         (req[r].pc = "save" /\ req'[r].pc = "idle" /\ res'.status = 200) =>
            LET q == req[r]
                id == q.conversationId
                old == store[id].messages
                new == store'[id].messages
            IN /\ DOMAIN store' = DOMAIN store
               /\ \A c \in DOMAIN store \ {id} : store'[c] = store[c]
               /\ store'[id].userId = store[id].userId
               /\ store'[id].createdAt = store[id].createdAt
               /\ Len(new) = Len(old) + 2
               /\ SubSeq(new, 1, Len(old)) = old
               /\ IsUser(new[Len(old) + 1], q.turn, q.question)
               /\ IsAssistant(new[Len(old) + 2], q.turn, q.answer)
               /\ q.hasText \/ q.answer = NoResponse
               /\ res'.answer = q.answer]_vars

\* C1 witness: a buffered turn answered with success and the provider's text.
C1_Witness ==
    /\ Completed("chat") /\ res.status = 200 /\ res.hasText
    /\ res.conversationId \in DOMAIN store
    /\ Len(store[res.conversationId].messages) = 2

\* C2: every buffered turn that reported success has its complete pair
\* [user, assistant] in the stored sequence, adjacent and exactly once, however
\* the turns on the conversation interleaved.
C2_ConcurrentBufferedTurnsKeepPairs ==
    \A s \in succeeded :
        LET t == s[1]
            id == s[2]
        IN id \in DOMAIN store =>
             LET ms == store[id].messages IN
             /\ Cardinality(PositionsOf(ms, t)) = 2
             /\ \E i \in 1..(Len(ms) - 1) :
                  /\ ms[i].turn = t /\ ms[i].role = "user"
                  /\ ms[i + 1].turn = t /\ ms[i + 1].role = "assistant"

\* C2 witness: two buffered turns on one conversation both reported success,
\* and the second to save had loaded its working copy before the first saved.
C2_Witness ==
    /\ Completed("chat") /\ res.status = 200
    /\ Cardinality(succeeded) = 2
    /\ res.conversationId \in DOMAIN store
    /\ Len(res.messages) = 2
    /\ Len(store[res.conversationId].messages) = 4

\* C3: every stored message sequence reflects complete turns: it does not
\* begin with an assistant message, holds no two consecutive assistant
\* messages, and every assistant message follows the user message of its turn.
C3_CompleteTurns ==
    \A id \in DOMAIN store :
        LET ms == store[id].messages IN
        /\ ms # <<>> => ms[1].role # "assistant"
        /\ \A i \in 1..(Len(ms) - 1) :
             ~(ms[i].role = "assistant" /\ ms[i + 1].role = "assistant")
        /\ \A i \in 1..Len(ms) :
             ms[i].role = "assistant" =>
                \E j \in 1..(i - 1) :
                    ms[j].role = "user" /\ ms[j].turn = ms[i].turn

\* C4: when the provider fails in a streaming turn, the turn has made durable
\* its user message and nothing else, the stored transcript (if the
\* conversation is still there) holds that user message and no assistant
\* message of the turn, and the channel carries the fragments sent so far,
\* then the abort marker, and is closed.
C4_ProviderFailureKeepsQuestionAndSignals ==
    (Completed("stream") /\ res.failed = "provider") =>
        LET n == Len(res.chan) IN
        /\ Len(res.committed) = 1
        /\ IsUser(res.committed[1], res.turn, res.question)
        /\ res.ended
        /\ n >= 1
        /\ res.chan[n] = STREAM_ERROR
        /\ \A i \in 1..(n - 1) : res.chan[i] # STREAM_ERROR
        /\ Concat(SubSeq(res.chan, 1, n - 1)) = res.fullAnswer
        /\ res.conversationId \in DOMAIN store =>
             LET ms == store[res.conversationId].messages IN
             /\ \E i \in 1..Len(ms) : IsUser(ms[i], res.turn, res.question)
             /\ \A i \in 1..Len(ms) :
                  ms[i].turn = res.turn => ms[i].role = "user"

\* C4 witness: the provider stream failed after one fragment was relayed.
C4_Witness ==
    /\ Completed("stream") /\ res.failed = "provider"
    /\ Len(res.chan) = 2
    /\ res.conversationId \in DOMAIN store

\* C5: when a streaming turn completes with no call having failed, the turn
\* has made durable [user, assistant], the assistant message is in the stored
\* transcript exactly once, and its content is the concatenation, in order,
\* of everything written to the caller.
C5_StreamedFragmentsEqualPersistedAnswer ==
    (Completed("stream") /\ res.found /\ res.failed = "none") =>
        /\ Len(res.committed) = 2
        /\ IsUser(res.committed[1], res.turn, res.question)
        /\ IsAssistant(res.committed[2], res.turn, Concat(res.chan))
        /\ res.conversationId \in DOMAIN store
        /\ LET ms == store[res.conversationId].messages IN
           Cardinality({i \in 1..Len(ms) :
                          IsAssistant(ms[i], res.turn, Concat(res.chan))}) = 1

\* C5 witness: a streaming turn of two fragments completed without failure.
C5_Witness ==
    /\ Completed("stream") /\ res.found /\ res.failed = "none"
    /\ Len(res.chan) = 2

\* C6: a streaming turn that opened the channel and ends without its
\* assistant message durable has written the abort marker to the caller.
C6_NoSilentClose ==
    (Completed("stream") /\ res.genCalls > 0 /\ Len(res.committed) < 2) =>
        \E i \in 1..Len(res.chan) : res.chan[i] = STREAM_ERROR

\* C7: whenever the Generation Client has been invoked for a turn, the user's
\* message of that turn is already durable.
C7_QuestionSavedBeforeGeneration ==
    \A q \in {req[r] : r \in Requests} \cup {res} :
        q.genCalls > 0 =>
            \E i \in 1..Len(q.committed) :
                IsUser(q.committed[i], q.turn, q.question)

\* The request q lacks a mandatory input.
MissingInput(q) ==
    \/ q.op \in {"create", "chat", "stream"} /\ q.userId = ""
    \/ q.op \in {"chat", "stream"} /\ q.question = <<>>

\* C8: a create or turn request that lacks userId, or a turn request that
\* lacks question, is answered 400 in the step it arrives, with the store
\* unchanged and the Generation Client not invoked; no such request is ever
\* in flight.
C8_InvalidRequestRejected ==
    [][/\ (res = Idle /\ res' # Idle /\ MissingInput(res')) =>
             /\ res'.status = 400
             /\ store' = store
             /\ res'.genCalls = 0
             /\ res'.committed = <<>>
             /\ req' = req
       /\ \A r \in Requests : ~MissingInput(req'[r])]_vars

\* C8 witness: a streaming turn without question was answered.
C8_Witness ==
    /\ Completed("stream") /\ res.userId # "" /\ res.question = <<>>
    /\ DOMAIN store # {}

\* C9: a buffered turn is all or nothing: one that does not report success
\* has made nothing durable and no stored message is its own, and no stored
\* sequence holds the user message of a buffered turn without the assistant
\* message of that turn right after it.
C9_BufferedTurnAllOrNothing ==
    /\ (Completed("chat") /\ res.status # 200) =>
          /\ res.committed = <<>>
          /\ \A id \in DOMAIN store :
                PositionsOf(store[id].messages, res.turn) = {}
    /\ \A id \in DOMAIN store :
          LET ms == store[id].messages IN
          \A i \in 1..Len(ms) :
             (ms[i].op = "chat" /\ ms[i].role = "user") =>
                /\ i < Len(ms)
                /\ ms[i + 1].role = "assistant"
                /\ ms[i + 1].turn = ms[i].turn

\* C9 witness: the save of a buffered turn failed on a conversation that is
\* still in the store.
C9_Witness ==
    /\ Completed("chat") /\ res.failed = "save"
    /\ res.conversationId \in DOMAIN store

\* The ids of the conversations that were deleted.
Deleted == (1..(nextId - 1)) \ DOMAIN store

\* C10: get on a deleted id answers 404, and delete on an id that is not in
\* the store answers 404.
C10_DeleteThenNotFound ==
    /\ (Completed("get") /\ res.failed = "none"
          /\ res.conversationId \in Deleted) => res.status = 404
    /\ (Completed("delete") /\ res.failed = "none" /\ ~res.found) =>
          res.status = 404

\* The request that just completed is a listing that found the store.
Listed == res.pc = "done" /\ res.op \in {"list", "listNew"} /\ res.status = 200

\* C11: a listing holds the user's conversations by createdAt descending;
\* the preview of a conversation with messages has at most 40 characters, and
\* the preview of one without messages is the empty marker, unaltered.
C11_ListingOrderAndPreview ==
    Listed =>
        LET cs == res.conversations IN
        /\ {cs[i].id : i \in 1..Len(cs)} =
              {id \in DOMAIN store : store[id].userId = res.userId}
        /\ \A i, j \in 1..Len(cs) :
              i < j => cs[i].createdAt >= cs[j].createdAt
        /\ \A i \in 1..Len(cs) :
              LET ms == store[cs[i].id].messages IN
              IF ms = <<>>
              THEN cs[i].preview \in {EmptyPreview, NewMarker}
              ELSE /\ Len(cs[i].preview) <= PreviewLen
                   /\ Slice(cs[i].preview, Len(ms[1].content)) =
                         Slice(ms[1].content, Len(cs[i].preview))

\* The texts of ts that are not empty, in order.
NonEmpty(ts) == SelectSeq(ts, LAMBDA t : t # <<>>)

\* The fragments on the channel: what was written but the abort marker.
Fragments(q) == SelectSeq(q.chan, LAMBDA t : t # STREAM_ERROR)

\* The streaming turns in flight and the one that just completed.
Streams == {q \in {req[r] : r \in Requests} \cup {res} : q.op = "stream"}

\* C13: at every point of a streaming turn, the fragments written to the
\* channel are exactly the non-empty texts of the chunks read so far, in the
\* order read: none dropped, none twice, none out of order, none held back.
C13_FragmentsFollowChunks ==
    \A q \in Streams : Fragments(q) = NonEmpty(q.chunks)

\* C13 witness: two chunks were read, the first without text, and the stream
\* is still open.
C13_Witness ==
    \E r \in Requests :
        /\ req[r].pc = "stream"
        /\ req[r].chunks = <<<<>>, <<"b">>>>
        /\ req[r].chan = <<<<"b">>>>

\* The channel of the streaming turn q is open: headers sent, not ended.
Open(q) == q.op = "stream" /\ q.genCalls > 0 /\ ~q.ended

\* The positions of the abort marker on the channel of q.
Markers(q) == {i \in 1..Len(q.chan) : q.chan[i] = STREAM_ERROR}

\* C12: a streaming turn that opened the channel eventually closes it; after
\* the loop the channel is closed, with the abort marker as the last thing
\* written when the provider failed and with no marker otherwise.
C12_ChannelEventuallyClosed ==
    /\ \A r \in Requests : Open(req[r]) ~> ~Open(req[r])
    /\ [](\A q \in Streams :
            (q.genCalls > 0 /\ q.pc \in {"saveAssistant", "done"}) =>
                /\ q.ended
                /\ IF q.failed = "provider"
                   THEN /\ q.chan # <<>>
                        /\ Markers(q) = {Len(q.chan)}
                   ELSE Markers(q) = {})

\* C12 witness: the stream ended after one fragment and the channel is closed
\* while the assistant's message is still to be saved.
C12_Witness ==
    \E r \in Requests :
        /\ req[r].pc = "saveAssistant"
        /\ req[r].ended
        /\ req[r].chan = <<<<"a">>>>

\* The sequence s is a prefix of the sequence t.
IsPrefix(s, t) == Len(s) <= Len(t) /\ \A i \in 1..Len(s) : s[i] = t[i]

\* C14: in every step each conversation that stays in the store keeps its
\* stored messages as a prefix of its new ones, and a conversation leaves the
\* store only in a step of delete.
C14_AppendOnly ==
    [][/\ \A id \in DOMAIN store \cap DOMAIN store' :
            IsPrefix(store[id].messages, store'[id].messages)
       /\ DOMAIN store \subseteq DOMAIN store' \/ res'.op = "delete"]_vars

\* C14 witness: a streaming turn saved its assistant message from a working
\* copy loaded before another turn committed to the same conversation.
C14_Witness ==
    /\ Completed("stream") /\ res.failed = "none"
    /\ res.conversationId \in DOMAIN store
    /\ LET ms == store[res.conversationId].messages IN
       /\ Len(ms) = 4
       /\ Len(res.convo) < Len(ms)
       /\ ms[4].turn = res.turn
       /\ ms[3].turn # res.turn

\* C15: a delete that succeeded has removed the conversation; an id that was
\* deleted stays deleted in every later step, whatever save a turn that loaded
\* it performs; get and list never show a deleted id.
C15_DeleteIsTerminal ==
    /\ [][Deleted \subseteq Deleted']_vars
    /\ []((Completed("delete") /\ res.status = 200) =>
             res.conversationId \notin DOMAIN store)
    /\ []((Completed("get") /\ res.conversationId \in Deleted) =>
             res.status # 200 /\ res.messages = <<>>)
    /\ [](Listed =>
             \A i \in 1..Len(res.conversations) :
                 res.conversations[i].id \notin Deleted)

\* C15 witness: a streaming turn loaded the conversation and saved the user's
\* message, the conversation was deleted, and the save of the assistant's
\* message came after that.
C15_Witness ==
    /\ Completed("stream") /\ res.found /\ res.failed = "save"
    /\ Len(res.committed) = 1
    /\ res.delta # <<>> /\ ValidateMessages(res.delta)
    /\ res.conversationId \in Deleted

\* C16: once the caller of a streaming turn has disconnected, nothing but
\* possibly the abort marker is written to its channel.
C16_NoForwardAfterDisconnect ==
    \A q \in Streams :
        q.gone => \A i \in (q.goneAt + 1)..Len(q.chan) :
                      q.chan[i] = STREAM_ERROR

\* C17: a streaming turn whose caller disconnected and whose provider stream
\* did not fail completes with the user's question durable and with the
\* assistant message holding all the text accumulated either durable or
\* handed to a save that failed.
C17_DisconnectStillPersists ==
    (Completed("stream") /\ res.gone /\ res.failed # "provider") =>
        /\ res.fullAnswer = Concat(NonEmpty(res.chunks))
        /\ res.committed # <<>>
        /\ IsUser(res.committed[1], res.turn, res.question)
        /\ \/ /\ res.failed = "none"
              /\ Len(res.committed) = 2
              /\ IsAssistant(res.committed[2], res.turn, res.fullAnswer)
           \/ /\ res.failed = "save"
              /\ Len(res.committed) = 1
              /\ Len(res.delta) = 1
              /\ IsAssistant(res.delta[1], res.turn, res.fullAnswer)

\* C17 witness: the caller disconnected after the first fragment, the second
\* fragment was read afterwards, and both are in the saved assistant message.
C17_Witness ==
    /\ Completed("stream") /\ res.gone /\ res.failed = "none"
    /\ res.goneAt = 1
    /\ Len(res.committed) = 2
    /\ res.committed[2].content = <<"a", "b">>

\* C19: a turn that is answered 404 has persisted nothing and has not invoked
\* the Generation Client.
C19_AbsentConversationNoGeneration ==
    (res.pc = "done" /\ res.op \in {"chat", "stream"} /\ res.status = 404) =>
        /\ res.committed = <<>>
        /\ res.genCalls = 0

\* C20: the messages in the response of a successful buffered turn are the
\* stored transcript of the conversation as the turn's save left it.
C20_ResponseEqualsTranscript ==
    (Completed("chat") /\ res.status = 200) =>
        res.messages = store[res.conversationId].messages

\* The turns in flight and the one that just completed.
Turns == {q \in {req[r] : r \in Requests} \cup {res} :
             q.op \in {"chat", "stream"} /\ q.turn > 0}

====
